---- MODULE Spec2Model ----
(***************************************************************************)
(* Arizona desert plants assistant: the ingestion pipeline                 *)
(* (data-ingestion/ingestion.py), the query-time vector store and RAG      *)
(* pipeline (assistant-app/ArizonaPlantVectorStore.py, ArizonaPlantRAG.py) *)
(* and the HTTP handlers /query and /search (assistant-app/app.py).        *)
(*                                                                         *)
(* Strings are TLA+ strings, Python lists are sequences, a Python dict is  *)
(* a function whose DOMAIN is its set of keys.  The Qdrant collection, the *)
(* embedding model and the chat-completion service are the environment:    *)
(* every call to them may succeed or raise.                                *)
(***************************************************************************)
EXTENDS Integers, Sequences, FiniteSets, TLC

VARIABLES
    collExists,      \* Qdrant: the collection COLLECTION_NAME exists
    collPoints,      \* Qdrant: point id -> [vector, payload]
    providerFaithful,\* the embedding model returns one vector per input text
    initialized,     \* app.py globals vector_store and rag are set
    \* ---- build_index (ingestion.py) ----
    ipc,             \* position of the ingestion script
    mode,            \* "build" (build_index) or "reset" (create_collection alone)
    documents,       \* build_index: documents
    all_embeddings,  \* create_embeddings: all_embeddings
    ei,              \* create_embeddings: loop variable i
    points,          \* upload_to_qdrant: points
    ui,              \* upload_to_qdrant: loop variable i
    ierror,          \* the exception that ended the run, or None
    report,          \* what build_index printed at the end, or None
    collBefore,      \* history: the collection when the run started
    resetLog,        \* history: the collection after each completed create_collection
    indexOps,        \* history: calls this run has issued to the Qdrant client
    \* ---- one HTTP request (app.py) ----
    qpc,             \* position of the request handler
    request,         \* the request body (QueryRequest) and its endpoint
    ragResults,      \* rag(): search_results
    prompt,          \* rag(): prompt
    answer,          \* query_rag: answer
    response,        \* the HTTP response, or None
    indexLimits,     \* history: every limit the index was queried with
    searchCalls,     \* history: index queries issued for this request
    llmCalls,        \* history: chat completions issued for this request
    searchAt,        \* history: where ingestion stood at this request's index queries
    failedCall,      \* history: the collaborator call that raised in this request
    \* ---- build_prompt applied to enumerated inputs ----
    bpQuery, bpResults, bpPrompt,
    \* ---- prepare_text_for_embedding applied to enumerated inputs ----
    ptDocument, ptText,
    \* ---- GET /health and GET /stats (app.py) ----
    opResponse,      \* the last response of /health or /stats
    opLog            \* history: every failed /health or /stats call: its cause and response

ingestVars == <<ipc, mode, documents, all_embeddings, ei, points, ui, ierror,
                report, collBefore, resetLog, indexOps>>
queryVars == <<qpc, request, ragResults, prompt, answer, response, indexLimits,
               searchCalls, llmCalls, searchAt, failedCall>>
bpVars == <<bpQuery, bpResults, bpPrompt>>
ptVars == <<ptDocument, ptText>>
opVars == <<opResponse, opLog>>
collVars == <<collExists, collPoints>>
vars == <<collExists, collPoints, providerFaithful, initialized, ingestVars,
          queryVars, bpVars, ptVars, opVars>>

-----------------------------------------------------------------------------
(* Python values *)

\* Python's None
None == "<None>"

Min(a, b) == IF a < b THEN a ELSE b

\* dict.get(key, default)
Get(d, k, default) == IF k \in DOMAIN d THEN d[k] ELSE default

\* seq[i:j] for 0 <= i
Slice(s, i, j) == SubSeq(s, i + 1, Min(j, Len(s)))

\* str(v) inside an f-string
Str(v) == IF v = None THEN "None" ELSE v

-----------------------------------------------------------------------------
(* Program constants *)

\* create_embeddings(documents, batch_size = 32)
EMBED_BATCH_SIZE == 32

\* upload_to_qdrant: batch_size = 100
UPLOAD_BATCH_SIZE == 100

\* prepare_text_for_embedding: max_chars = 5000
MAX_CHARS == 5000

\* query_rag and search_documents: doc['content'][:500] + "..."
DISPLAY_CHARS == 500

\* rag(): self.vector_store.search(query, limit=5)
RAG_LIMIT == 5

\* QueryRequest: question min_length=3; top_k ge=1, le=10
MIN_QUESTION_LEN == 3
TOP_K_MIN == 1
TOP_K_MAX == 10

-----------------------------------------------------------------------------
(* Bounds of the model *)

\* length of the middle-sized dataset
SmallDatasetLen == 6

\* points an earlier run may have left in the collection
PriorPoints == 2

\* create_collection calls made in a row by a reset-only run
MaxResets == 2

\* iterations of a batch loop when a property tries other batch sizes on it
MaxIterations == 16

\* longest title prepare_text_for_embedding is applied to on its own
MaxTitleLen == 8

\* length of the over-long content prepare_text_for_embedding is applied to
OverlongContentLen == 6000

\* longest result list build_prompt is applied to on its own
MaxResults == 3

-----------------------------------------------------------------------------
(* The corpus: Document records as load_dataset returns them *)

RECURSIVE Repeat(_, _)
Repeat(s, n) == IF n = 0 THEN "" ELSE s \o Repeat(s, n - 1)

\* a content longer than DISPLAY_CHARS
LongContent == Repeat("Carnegiea gigantea tolerates extreme heat. ", 12)

TitleOf(i) == "Plant " \o ToString(i) \o SubSeq("abcdefg", 1, (i * 3) % 7)

\* The i-th record of a dataset file.  Record 2 has no 'type' key and record 3
\* has a content longer than DISPLAY_CHARS.
PlantDoc(i) ==
    LET base == [id |-> "p" \o ToString(i), source |-> "X", title |-> TitleOf(i),
                 content |-> IF i = 3 THEN LongContent
                             ELSE "Content of plant " \o ToString(i),
                 metadata |-> "{}"]
    IN  IF i = 2 THEN base ELSE base @@ [type |-> "plant"]

Saguaro == [id |-> "p1", type |-> "plant", source |-> "X", title |-> "Saguaro",
            content |-> "Carnegiea gigantea tolerates extreme heat...",
            metadata |-> "{}"]

Records(n) == [i \in 1..n |-> PlantDoc(i)]

\* A dataset path, by what is on disk there: exists, suffix, whether every
\* record parses as JSON, and the records.
DatasetFile(exists, suffix, parses, records) ==
    [exists |-> exists, suffix |-> suffix, parses |-> parses, records |-> records]

DatasetFiles ==
    { DatasetFile(FALSE, ".jsonl", TRUE, <<>>),
      DatasetFile(TRUE, ".csv", TRUE, <<Saguaro>>),
      DatasetFile(TRUE, ".jsonl", FALSE, <<Saguaro>>),
      DatasetFile(TRUE, ".json", TRUE, <<>>),
      DatasetFile(TRUE, ".jsonl", TRUE, Records(SmallDatasetLen)),
      DatasetFile(TRUE, ".jsonl", TRUE, Records(UPLOAD_BATCH_SIZE + 1)) }

\* a call's outcome: a value, or the exception it raised
Ok(v) == [ok |-> TRUE, value |-> v]
Raise(e) == [ok |-> FALSE, error |-> e]

-----------------------------------------------------------------------------
(* ingestion.py: pure steps *)

load_dataset(file) ==
    IF ~file.exists THEN Raise("FileNotFoundError")
    ELSE IF file.suffix \in {".json", ".jsonl"}
         THEN IF file.parses THEN Ok(file.records) ELSE Raise("JSONDecodeError")
         ELSE Raise("ValueError")

\* prepare_text_for_embedding cutting the content, not the combined text, to
\* max_chars
PrepareTextCutsContent(document) ==
    LET title == Get(document, "title", "")
        content == Get(document, "content", "")
    IN  Str(title) \o "\n\n" \o Slice(Str(content), 0, MAX_CHARS)

prepare_text_for_embedding(document) ==
    LET title == Get(document, "title", "")
        content == Get(document, "content", "")
        text == Str(title) \o "\n\n" \o Str(content)
    IN  IF Len(text) > MAX_CHARS THEN Slice(text, 0, MAX_CHARS) ELSE text

\* the embedding model on one text: the vector of that text
Encode(text) == [of |-> text]

\* embedding_model.encode(batch_texts): one vector per text in order when the
\* provider is faithful; otherwise possibly a shorter list
EncodeBatchOutcomes(batch_texts, faithful) ==
    LET full == [j \in 1..Len(batch_texts) |-> Encode(batch_texts[j])]
    IN  {full} \cup (IF faithful \/ Len(full) = 0 THEN {}
                     ELSE {SubSeq(full, 1, Len(full) - 1)})

Texts(docs) == [j \in 1..Len(docs) |-> prepare_text_for_embedding(docs[j])]

\* zip(documents, all_embeddings, texts)
Zip3(docs, embs, texts) ==
    [j \in 1..Min(Len(docs), Min(Len(embs), Len(texts))) |->
        [document |-> docs[j], embedding |-> embs[j], text |-> texts[j]]]

\* the payload upload_to_qdrant stores for a document
Payload(doc) ==
    [id |-> Get(doc, "id", None), type |-> Get(doc, "type", None),
     source |-> Get(doc, "source", None), title |-> Get(doc, "title", None),
     content |-> Get(doc, "content", None), metadata |-> Get(doc, "metadata", "{}")]

\* the id upload_to_qdrant gives the item at zero-based position idx
PointId(idx) == idx

\* upload_to_qdrant: the points list built from enumerate(documents_with_embeddings)
BuildPoints(items) ==
    [j \in 1..Len(items) |->
        [id |-> PointId(j - 1), vector |-> items[j].embedding,
         payload |-> Payload(items[j].document)]]

\* Batch with the slice one element short: seq[i:i + batch_size - 1]
BatchOneShort(seq, i, batch_size) == Slice(seq, i, i + batch_size - 1)

\* one batch of a list: seq[i:i + batch_size]
Batch(seq, i, batch_size) == Slice(seq, i, i + batch_size)

\* client.upsert: insert or overwrite by point id
Upsert(pts, batch) ==
    LET ids == {batch[j].id : j \in 1..Len(batch)}
        last(id) == CHOOSE j \in 1..Len(batch) :
                        /\ batch[j].id = id
                        /\ \A k \in 1..Len(batch) : batch[k].id = id => k <= j
    IN  [id \in DOMAIN pts \cup ids |->
            IF id \in ids
            THEN [vector |-> batch[last(id)].vector, payload |-> batch[last(id)].payload]
            ELSE pts[id]]

NoPoints == [id \in {} |-> None]

-----------------------------------------------------------------------------
(* ingestion.py: build_index, step by step *)

Collection == [exists |-> collExists, points |-> collPoints]

\* an exception leaves build_index (the script's except clauses print it)
IngestFails(e, at) ==
    /\ ipc' = "failed"
    /\ ierror' = [type |-> e, at |-> at]

\* BuildIndexStart with create_collection moved ahead of load_dataset: the
\* collection is dropped before the dataset is read
BuildIndexStartResetFirst ==
    /\ ipc = "idle"
    /\ \E file \in DatasetFiles :
         LET loaded == load_dataset(file)
         IN  /\ mode' = "build"
             /\ collBefore' = Collection
             /\ collExists' = FALSE
             /\ collPoints' = NoPoints
             /\ IF loaded.ok
                THEN /\ documents' = loaded.value
                     /\ ipc' = "create"
                     /\ UNCHANGED ierror
                ELSE /\ IngestFails(loaded.error, "load_dataset")
                     /\ UNCHANGED documents
    /\ indexOps' = 1
    /\ UNCHANGED <<all_embeddings, ei, points, ui, report, resetLog>>
    /\ UNCHANGED <<providerFaithful, initialized, queryVars, bpVars, ptVars, opVars>>

\* build_index(dataset_path): load_dataset, then on to create_collection
BuildIndexStart ==
    /\ ipc = "idle"
    /\ \E file \in DatasetFiles :
         LET loaded == load_dataset(file)
         IN  /\ mode' = "build"
             /\ collBefore' = Collection
             /\ IF loaded.ok
                THEN /\ documents' = loaded.value
                     /\ ipc' = "delete"
                     /\ UNCHANGED ierror
                ELSE /\ IngestFails(loaded.error, "load_dataset")
                     /\ UNCHANGED documents
    /\ indexOps' = 0
    /\ UNCHANGED <<collVars, all_embeddings, ei, points, ui, report, resetLog>>
    /\ UNCHANGED <<providerFaithful, initialized, queryVars, bpVars, ptVars, opVars>>

\* create_collection() called on its own, up to MaxResets times in a row
ResetStart ==
    /\ ipc \in {"idle", "resetDone"}
    /\ Len(resetLog) < MaxResets
    /\ mode' = "reset"
    /\ ipc' = "delete"
    /\ collBefore' = IF ipc = "idle" THEN Collection ELSE collBefore
    /\ UNCHANGED <<collVars, documents, all_embeddings, ei, points, ui, ierror,
                   report, resetLog, indexOps>>
    /\ UNCHANGED <<providerFaithful, initialized, queryVars, bpVars, ptVars, opVars>>

\* create_collection, first half: try: client.delete_collection(...) except: pass
DeleteCollection ==
    /\ ipc = "delete"
    /\ \E deleted \in BOOLEAN :
         IF deleted
         THEN collExists' = FALSE /\ collPoints' = NoPoints
         ELSE UNCHANGED collVars
    /\ ipc' = "create"
    /\ indexOps' = indexOps + 1
    /\ UNCHANGED <<mode, documents, all_embeddings, ei, points, ui, ierror, report,
                   collBefore, resetLog>>
    /\ UNCHANGED <<providerFaithful, initialized, queryVars, bpVars, ptVars, opVars>>

\* CreateCollection with the create call wrapped like the delete call
\* (try: ... except: pass): a failed create goes unnoticed
CreateCollectionSwallows ==
    /\ ipc = "create"
    /\ \E reachable \in BOOLEAN :
         IF reachable /\ ~collExists
         THEN collExists' = TRUE /\ collPoints' = NoPoints
         ELSE UNCHANGED collVars
    /\ resetLog' = Append(resetLog, [exists |-> collExists', points |-> collPoints'])
    /\ ipc' = IF mode = "reset" THEN "resetDone" ELSE "embed"
    /\ ei' = 0
    /\ all_embeddings' = <<>>
    /\ indexOps' = indexOps + 1
    /\ UNCHANGED <<mode, documents, points, ui, ierror, report, collBefore>>
    /\ UNCHANGED <<providerFaithful, initialized, queryVars, bpVars, ptVars, opVars>>

\* create_collection, second half: client.create_collection(...), which raises
\* when the service is unreachable or the collection is still there
CreateCollection ==
    /\ ipc = "create"
    /\ \E reachable \in BOOLEAN :
         IF reachable /\ ~collExists
         THEN /\ collExists' = TRUE
              /\ collPoints' = NoPoints
              /\ resetLog' = Append(resetLog, [exists |-> collExists', points |-> collPoints'])
              /\ ipc' = IF mode = "reset" THEN "resetDone" ELSE "embed"
              /\ UNCHANGED ierror
         ELSE /\ IngestFails(IF reachable THEN "UnexpectedResponse"
                             ELSE "ResponseHandlingException", "create_collection")
              /\ UNCHANGED <<collVars, resetLog>>
    /\ ei' = 0
    /\ all_embeddings' = <<>>
    /\ indexOps' = indexOps + 1
    /\ UNCHANGED <<mode, documents, points, ui, report, collBefore>>
    /\ UNCHANGED <<providerFaithful, initialized, queryVars, bpVars, ptVars, opVars>>

\* create_embeddings: one iteration of the loop over range(0, len(texts), batch_size)
EmbedBatch ==
    /\ ipc = "embed"
    /\ ei < Len(documents)
    /\ LET batch_texts == Batch(Texts(documents), ei, EMBED_BATCH_SIZE)
       IN  \E raised \in BOOLEAN :
             IF raised
             THEN /\ IngestFails("EmbeddingError", "create_embeddings")
                  /\ UNCHANGED <<all_embeddings, ei>>
             ELSE /\ \E batch_embeddings \in
                          EncodeBatchOutcomes(batch_texts, providerFaithful) :
                        all_embeddings' = all_embeddings \o batch_embeddings
                  /\ ei' = ei + EMBED_BATCH_SIZE
                  /\ UNCHANGED <<ipc, ierror>>
    /\ UNCHANGED <<collVars, mode, documents, points, ui, report, collBefore, resetLog,
                   indexOps>>
    /\ UNCHANGED <<providerFaithful, initialized, queryVars, bpVars, ptVars, opVars>>

\* create_embeddings returns the zipped list; upload_to_qdrant builds its points
CreateEmbeddingsReturn ==
    /\ ipc = "embed"
    /\ ei >= Len(documents)
    /\ points' = BuildPoints(Zip3(documents, all_embeddings, Texts(documents)))
    /\ ui' = 0
    /\ ipc' = "upload"
    /\ UNCHANGED <<collVars, mode, documents, all_embeddings, ei, ierror, report,
                   collBefore, resetLog, indexOps>>
    /\ UNCHANGED <<providerFaithful, initialized, queryVars, bpVars, ptVars, opVars>>

\* upload_to_qdrant: one iteration of the loop over range(0, len(points), batch_size)
UpsertBatch ==
    /\ ipc = "upload"
    /\ ui < Len(points)
    /\ \E accepted \in BOOLEAN :
         IF accepted /\ collExists
         THEN /\ collPoints' = Upsert(collPoints, Batch(points, ui, UPLOAD_BATCH_SIZE))
              /\ ui' = ui + UPLOAD_BATCH_SIZE
              /\ UNCHANGED <<collExists, ipc, ierror>>
         ELSE /\ IngestFails("UnexpectedResponse", "upload_to_qdrant")
              /\ UNCHANGED <<collVars, ui>>
    /\ indexOps' = indexOps + 1
    /\ UNCHANGED <<mode, documents, all_embeddings, ei, points, report, collBefore,
                   resetLog>>
    /\ UNCHANGED <<providerFaithful, initialized, queryVars, bpVars, ptVars, opVars>>

\* build_index, after upload_to_qdrant: get_collection and the closing report
Verify ==
    /\ ipc = "upload"
    /\ ui >= Len(points)
    /\ \E reachable \in BOOLEAN :
         IF reachable /\ collExists
         THEN /\ report' = [message |-> "Index built successfully!",
                            total_vectors |-> Cardinality(DOMAIN collPoints)]
              /\ ipc' = "done"
              /\ UNCHANGED ierror
         ELSE /\ IngestFails("UnexpectedResponse", "get_collection")
              /\ UNCHANGED report
    /\ indexOps' = indexOps + 1
    /\ UNCHANGED <<collVars, mode, documents, all_embeddings, ei, points, ui,
                   collBefore, resetLog>>
    /\ UNCHANGED <<providerFaithful, initialized, queryVars, bpVars, ptVars, opVars>>

Ingest ==
    \/ BuildIndexStart
    \/ ResetStart
    \/ DeleteCollection
    \/ CreateCollection
    \/ EmbedBatch
    \/ CreateEmbeddingsReturn
    \/ UpsertBatch
    \/ Verify

-----------------------------------------------------------------------------
(* The vector index as the query path sees it *)

\* Similarity of a stored vector to the query vector, in units of 0.0001: a
\* fixed function of the two embedded texts.
Score(query_vector, vector) ==
    (Len(query_vector.of) * 131 + Len(vector.of) * 977) % 10001

\* client.query_points(..., limit, with_payload=True).points: the limit best
\* points by descending score (equal scores by ascending point id)
QueryPoints(pts, query_vector, limit) ==
    LET ids == DOMAIN pts
        score == [id \in ids |-> Score(query_vector, pts[id].vector)]
        before(a, b) == score[a] > score[b] \/ (score[a] = score[b] /\ a < b)
        rank == [id \in ids |-> Cardinality({o \in ids : before(o, id)})]
    IN  [r \in 1..Min(limit, Cardinality(ids)) |->
            LET id == CHOOSE x \in ids : rank[x] = r - 1
            IN  [id |-> id, score |-> score[id], payload |-> pts[id].payload]]

\* ArizonaPlantVectorStore.search: the result dicts made from the scored points
FormatResults(scored) ==
    [r \in 1..Len(scored) |->
        [id |-> Get(scored[r].payload, "id", "N/A"),
         score |-> scored[r].score,
         title |-> Get(scored[r].payload, "title", "Untitled"),
         content |-> Get(scored[r].payload, "content", ""),
         type |-> Get(scored[r].payload, "type", ""),
         source |-> Get(scored[r].payload, "source", ""),
         metadata |-> Get(scored[r].payload, "metadata", "{}")]]

\* ArizonaPlantVectorStore.search(query, limit) against the collection as it is
\* now: encode the query, query the index, format.  The encoder or the index
\* may raise; the index raises on a collection that does not exist.
search(query, limit, encoded, reachable) ==
    IF ~encoded THEN Raise("EmbeddingError")
    ELSE IF ~reachable THEN Raise("ResponseHandlingException")
    ELSE IF ~collExists THEN Raise("UnexpectedResponse: Not found: Collection doesn't exist")
    ELSE IF limit < 1 THEN Raise("UnexpectedResponse: Bad request: limit")
    ELSE Ok(FormatResults(QueryPoints(collPoints, Encode(query), limit)))

-----------------------------------------------------------------------------
(* ArizonaPlantRAG.build_prompt *)

Pad3(n) == IF n < 10 THEN "00" \o ToString(n)
           ELSE IF n < 100 THEN "0" \o ToString(n) ELSE ToString(n)

\* f"{score:.3f}" for a score >= 0 given in units of 0.0001 (ties to even)
Fmt3(score) ==
    LET q == score \div 10
        r == score % 10
        t == IF r > 5 \/ (r = 5 /\ q % 2 = 1) THEN q + 1 ELSE q
    IN  ToString(t \div 1000) \o "." \o Pad3(t % 1000)

RECURSIVE Join(_, _)
\* sep.join(parts)
Join(parts, sep) ==
    IF Len(parts) = 0 THEN ""
    ELSE IF Len(parts) = 1 THEN parts[1]
    ELSE parts[1] \o sep \o Join(Tail(parts), sep)

IsSpace(c) == c \in {" ", "\n", "\t", "\r"}

RECURSIVE LStrip(_)
LStrip(s) == IF Len(s) > 0 /\ IsSpace(SubSeq(s, 1, 1))
             THEN LStrip(SubSeq(s, 2, Len(s))) ELSE s

RECURSIVE RStrip(_)
RStrip(s) == IF Len(s) > 0 /\ IsSpace(SubSeq(s, Len(s), Len(s)))
             THEN RStrip(SubSeq(s, 1, Len(s) - 1)) ELSE s

\* str.strip()
Strip(s) == RStrip(LStrip(s))

\* the five lines build_prompt appends for the result at 1-based rank i
ContextBlock(i, result) ==
    << "Document " \o ToString(i) \o " (Score: " \o Fmt3(result.score) \o "):",
       "Title: " \o Str(result.title),
       "Source: " \o Str(result.source),
       "Content: " \o Str(result.content),
       "" >>

RECURSIVE ContextPartsFromZero(_, _)
\* ContextParts with enumerate(search_results) left at its default start of 0
ContextPartsFromZero(search_results, n) ==
    IF n = 0 THEN <<>>
    ELSE ContextPartsFromZero(search_results, n - 1)
         \o ContextBlock(n - 1, search_results[n])

RECURSIVE ContextParts(_, _)
\* context_parts after the first n results
ContextParts(search_results, n) ==
    IF n = 0 THEN <<>>
    ELSE ContextParts(search_results, n - 1) \o ContextBlock(n, search_results[n])

PromptHead ==
    "You are an expert on Arizona desert plants. Answer the user's question based on the provided context from authoritative sources.\n\n        Context from relevant documents:\n        "

PromptQuestion == "\n\n        User Question: "

PromptInstructions ==
    "\n\n        Instructions:\n        - Provide a clear, detailed answer based on the context above\n        - If the context contains scientific names, include them\n        - If mentioning care instructions, be specific about Arizona conditions\n        - If the context doesn't fully answer the question, say so\n        - Cite which document(s) you're drawing from (e.g., \"According to Document 1...\")\n\n        "

PromptTail == "Answer:"

build_prompt(query, search_results) ==
    LET context == Join(ContextParts(search_results, Len(search_results)), "\n")
    IN  Strip(PromptHead \o context \o PromptQuestion \o query
              \o PromptInstructions \o PromptTail)

-----------------------------------------------------------------------------
(* app.py: request validation and response construction *)

Questions == {"hi", "drought tolerant cactus"}

TopKs == {TOP_K_MIN - 2, TOP_K_MIN - 1, TOP_K_MIN, 3, TOP_K_MAX, TOP_K_MAX + 1}

Endpoints == {"/query", "/search"}

NoRequest == [endpoint |-> None, question |-> None, top_k |-> 0]
NoResponse == [status |-> 0]

\* QueryRequestValid without the ge=1 constraint on top_k
QueryRequestValidNoFloor(question, top_k) ==
    /\ Len(question) >= MIN_QUESTION_LEN
    /\ top_k <= TOP_K_MAX

\* QueryRequest: question min_length=3, top_k ge=1 le=10
QueryRequestValid(question, top_k) ==
    /\ Len(question) >= MIN_QUESTION_LEN
    /\ top_k >= TOP_K_MIN
    /\ top_k <= TOP_K_MAX

\* FastAPI's answer to a body that fails QueryRequest
ValidationResponse == [status |-> 422, detail |-> "Unprocessable Entity"]

\* ErrorResponse without the handler's try/except: the exception leaves the
\* handler and the handler produces no response of its own
ExceptionEscapes(endpoint, e) == [status |-> 0, detail |-> e]

\* the except clause of a handler: HTTPException(500, detail=prefix + str(e))
ErrorResponse(endpoint, e) ==
    [status |-> 500,
     detail |-> (IF endpoint = "/query" THEN "Error processing query: "
                 ELSE "Error searching documents: ") \o e]

\* the content a SearchResult carries
DisplayContent(content) ==
    IF Len(content) > DISPLAY_CHARS
    THEN Slice(content, 0, DISPLAY_CHARS) \o "..."
    ELSE content

\* [SearchResult(...) for doc in docs]: raises when a field is not a string
SearchResults(docs) ==
    IF \E r \in 1..Len(docs) :
          None \in {docs[r].id, docs[r].title, docs[r].content, docs[r].type,
                    docs[r].source}
    THEN Raise("ValidationError")
    ELSE Ok([r \in 1..Len(docs) |->
                [id |-> docs[r].id, title |-> docs[r].title, score |-> docs[r].score,
                 content |-> DisplayContent(docs[r].content), type |-> docs[r].type,
                 source |-> docs[r].source]])

\* QueryResponse(question, answer, retrieved_documents): answer must be a string
QueryResponse(question, ans, search_results) ==
    IF ans = None THEN Raise("ValidationError")
    ELSE Ok([status |-> 200, question |-> question, answer |-> ans,
             retrieved_documents |-> search_results, model |-> "gpt-4o-mini"])

\* the dict search_documents returns
SearchResponse(question, search_results) ==
    [status |-> 200, query |-> question, results |-> search_results,
     count |-> Len(search_results)]

\* the chat completion's message content
LlmAnswer == "According to Document 1, the saguaro tolerates extreme heat."

-----------------------------------------------------------------------------
(* app.py: one request through /query or /search *)

Respond(r) ==
    /\ response' = r
    /\ qpc' = "done"

\* the request arrives: validation, then the handler up to its first call out
ReceiveRequest ==
    /\ qpc = "idle"
    /\ \E endpoint \in Endpoints, question \in Questions, top_k \in TopKs :
         /\ request' = [endpoint |-> endpoint, question |-> question, top_k |-> top_k]
         /\ IF ~QueryRequestValid(question, top_k)
            THEN Respond(ValidationResponse)
            ELSE IF ~initialized
            THEN Respond(ErrorResponse(endpoint,
                     IF endpoint = "/query" THEN "503: RAG system not initialized"
                     ELSE "503: Vector store not initialized"))
            ELSE /\ qpc' = IF endpoint = "/query" THEN "rag" ELSE "search"
                 /\ response' = NoResponse
    /\ ragResults' = <<>>
    /\ prompt' = None
    /\ answer' = None
    /\ searchCalls' = 0
    /\ llmCalls' = 0
    /\ searchAt' = <<>>
    /\ failedCall' = None
    /\ UNCHANGED indexLimits
    /\ UNCHANGED <<collVars, providerFaithful, initialized, ingestVars, bpVars,
                   ptVars, opVars>>

\* history of one vector_store.search call
NoteSearch(limit, encoded) ==
    /\ indexLimits' = IF encoded THEN indexLimits \cup {limit} ELSE indexLimits
    /\ searchCalls' = searchCalls + (IF encoded THEN 1 ELSE 0)
    /\ searchAt' = IF encoded
                   THEN Append(searchAt, [at |-> ipc, exists |-> collExists,
                                          count |-> Cardinality(DOMAIN collPoints)])
                   ELSE searchAt

\* query_rag: rag.rag(question) up to the prompt (search with limit=5, build_prompt)
RagRetrieve ==
    /\ qpc = "rag"
    /\ \E encoded \in BOOLEAN, reachable \in BOOLEAN :
         LET found == search(request.question, RAG_LIMIT, encoded, reachable)
         IN  /\ NoteSearch(RAG_LIMIT, encoded)
             /\ IF found.ok
                THEN /\ ragResults' = found.value
                     /\ prompt' = build_prompt(request.question, found.value)
                     /\ qpc' = "llm"
                     /\ UNCHANGED <<response, failedCall>>
                ELSE /\ Respond(ErrorResponse("/query", found.error))
                     /\ failedCall' = "retrieval"
                     /\ UNCHANGED <<ragResults, prompt>>
    /\ UNCHANGED <<request, answer, llmCalls>>
    /\ UNCHANGED <<collVars, providerFaithful, initialized, ingestVars, bpVars,
                   ptVars, opVars>>

\* RagGenerate with llm() catching the service's exception and returning ""
RagGenerateSwallows ==
    /\ qpc = "llm"
    /\ llmCalls' = llmCalls + 1
    /\ \E outcome \in {"content", "no content", "raise"} :
         /\ answer' = IF outcome = "content" THEN LlmAnswer
                      ELSE IF outcome = "raise" THEN "" ELSE None
         /\ failedCall' = IF outcome = "raise" THEN "generation" ELSE failedCall
    /\ qpc' = "documents"
    /\ UNCHANGED <<request, ragResults, prompt, response, indexLimits, searchCalls,
                   searchAt>>
    /\ UNCHANGED <<collVars, providerFaithful, initialized, ingestVars, bpVars,
                   ptVars, opVars>>

\* query_rag: rag.rag(question), the llm(prompt) call
RagGenerate ==
    /\ qpc = "llm"
    /\ llmCalls' = llmCalls + 1
    /\ \E outcome \in {"content", "no content", "raise"} :
         IF outcome = "raise"
         THEN /\ Respond(ErrorResponse("/query", "APIError"))
              /\ failedCall' = "generation"
              /\ UNCHANGED answer
         ELSE /\ answer' = IF outcome = "content" THEN LlmAnswer ELSE None
              /\ qpc' = "documents"
              /\ UNCHANGED <<response, failedCall>>
    /\ UNCHANGED <<request, ragResults, prompt, indexLimits, searchCalls, searchAt>>
    /\ UNCHANGED <<collVars, providerFaithful, initialized, ingestVars, bpVars,
                   ptVars, opVars>>

\* query_rag: vector_store.search(question, limit=top_k), SearchResult list, response
QueryDocuments ==
    /\ qpc = "documents"
    /\ \E encoded \in BOOLEAN, reachable \in BOOLEAN :
         LET found == search(request.question, request.top_k, encoded, reachable)
             shown == IF found.ok THEN SearchResults(found.value) ELSE found
             built == IF shown.ok
                      THEN QueryResponse(request.question, answer, shown.value)
                      ELSE shown
         IN  /\ NoteSearch(request.top_k, encoded)
             /\ IF built.ok
                THEN Respond(built.value) /\ UNCHANGED failedCall
                ELSE /\ Respond(ErrorResponse("/query", built.error))
                     /\ failedCall' = IF ~found.ok THEN "retrieval" ELSE "response"
    /\ UNCHANGED <<request, ragResults, prompt, answer, llmCalls>>
    /\ UNCHANGED <<collVars, providerFaithful, initialized, ingestVars, bpVars,
                   ptVars, opVars>>

\* SearchDocuments going through rag.rag(), as query_rag does: a chat completion
\* is issued before the documents are returned
SearchDocumentsViaRag ==
    /\ qpc = "search"
    /\ llmCalls' = llmCalls + 1
    /\ \E encoded \in BOOLEAN, reachable \in BOOLEAN :
         LET found == search(request.question, request.top_k, encoded, reachable)
             shown == IF found.ok THEN SearchResults(found.value) ELSE found
         IN  /\ NoteSearch(request.top_k, encoded)
             /\ IF shown.ok
                THEN /\ Respond(SearchResponse(request.question, shown.value))
                     /\ UNCHANGED failedCall
                ELSE /\ Respond(ErrorResponse("/search", shown.error))
                     /\ failedCall' = IF ~found.ok THEN "retrieval" ELSE "response"
    /\ UNCHANGED <<request, ragResults, prompt, answer>>
    /\ UNCHANGED <<collVars, providerFaithful, initialized, ingestVars, bpVars,
                   ptVars, opVars>>

\* search_documents: vector_store.search(question, limit=top_k), SearchResult list
SearchDocuments ==
    /\ qpc = "search"
    /\ \E encoded \in BOOLEAN, reachable \in BOOLEAN :
         LET found == search(request.question, request.top_k, encoded, reachable)
             shown == IF found.ok THEN SearchResults(found.value) ELSE found
         IN  /\ NoteSearch(request.top_k, encoded)
             /\ IF shown.ok
                THEN /\ Respond(SearchResponse(request.question, shown.value))
                     /\ UNCHANGED failedCall
                ELSE /\ Respond(ErrorResponse("/search", shown.error))
                     /\ failedCall' = IF ~found.ok THEN "retrieval" ELSE "response"
    /\ UNCHANGED <<request, ragResults, prompt, answer, llmCalls>>
    /\ UNCHANGED <<collVars, providerFaithful, initialized, ingestVars, bpVars,
                   ptVars, opVars>>

Serve ==
    \/ ReceiveRequest
    \/ RagRetrieve
    \/ RagGenerate
    \/ QueryDocuments
    \/ SearchDocuments

-----------------------------------------------------------------------------
(* app.py: GET /health and GET /stats *)

\* what the Qdrant client raises when the service cannot be reached, and when
\* the collection does not exist
Unreachable == "ResponseHandlingException"
NotFound == "UnexpectedResponse: Not found: Collection doesn't exist"

\* vector_store.client.get_collection(COLLECTION_NAME) as the handlers call it:
\* with vector_store None the attribute access raises
get_collection(reachable) ==
    IF ~initialized THEN Raise("'NoneType' object has no attribute 'client'")
    ELSE IF ~reachable THEN Raise(Unreachable)
    ELSE IF ~collExists THEN Raise(NotFound)
    ELSE Ok([points_count |-> Cardinality(DOMAIN collPoints),
             vectors_size |-> "embedding_dim"])

\* HealthResponse without its timestamp (the clock's reading at the call)
HealthResponse(status, qdrant_connected, collection_exists, document_count) ==
    [status |-> 200,
     body |-> [status |-> status, qdrant_connected |-> qdrant_connected,
               collection_exists |-> collection_exists,
               document_count |-> document_count]]

\* the dict get_statistics returns, without its timestamp
Statistics(collection_info) ==
    [status |-> 200,
     body |-> [collection_name |-> "COLLECTION_NAME",
               total_documents |-> collection_info.points_count,
               vector_dimension |-> collection_info.vectors_size,
               embedding_model |-> "EMBEDDING_MODEL"]]

\* a failed call of op and what the caller was given for it
NoteFailure(op, outcome, given) ==
    opLog' = IF outcome.ok THEN opLog
             ELSE opLog \cup {[op |-> op, error |-> outcome.error, result |-> given]}

\* health_check
HealthCheck ==
    /\ \E reachable \in BOOLEAN :
         LET collection_info == get_collection(reachable)
             given == IF collection_info.ok
                      THEN HealthResponse("healthy", TRUE, TRUE,
                                          collection_info.value.points_count)
                      ELSE HealthResponse("unhealthy", FALSE, FALSE, None)
         IN  /\ opResponse' = given
             /\ NoteFailure("/health", collection_info, given)
    /\ UNCHANGED <<collVars, providerFaithful, initialized, ingestVars, queryVars,
                   bpVars, ptVars>>

\* get_statistics
GetStatistics ==
    /\ \E reachable \in BOOLEAN :
         LET collection_info == get_collection(reachable)
             given == IF collection_info.ok
                      THEN Statistics(collection_info.value)
                      ELSE [status |-> 500,
                            detail |-> "Error fetching statistics: "
                                       \o collection_info.error]
         IN  /\ opResponse' = given
             /\ NoteFailure("/stats", collection_info, given)
    /\ UNCHANGED <<collVars, providerFaithful, initialized, ingestVars, queryVars,
                   bpVars, ptVars>>

-----------------------------------------------------------------------------
(* The system *)

\* what an earlier ingestion run left in the collection
PriorCollection ==
    BuildPoints([j \in 1..PriorPoints |->
        [document |-> PlantDoc(20 + j), text |-> prepare_text_for_embedding(PlantDoc(20 + j)),
         embedding |-> Encode(prepare_text_for_embedding(PlantDoc(20 + j)))]])

InitIngest ==
    /\ ipc = "idle"
    /\ mode = None
    /\ documents = <<>>
    /\ all_embeddings = <<>>
    /\ ei = 0
    /\ points = <<>>
    /\ ui = 0
    /\ ierror = [type |-> None, at |-> None]
    /\ report = [message |-> None, total_vectors |-> 0]
    /\ collBefore = Collection
    /\ resetLog = <<>>
    /\ indexOps = 0

InitQuery ==
    /\ qpc = "idle"
    /\ request = NoRequest
    /\ ragResults = <<>>
    /\ prompt = None
    /\ answer = None
    /\ response = NoResponse
    /\ indexLimits = {}
    /\ searchCalls = 0
    /\ llmCalls = 0
    /\ searchAt = <<>>
    /\ failedCall = None

InitPromptIdle ==
    /\ bpQuery = None
    /\ bpResults = <<>>
    /\ bpPrompt = None

InitPrepareIdle ==
    /\ ptDocument = [id |-> None]
    /\ ptText = None

InitOps ==
    /\ opResponse = NoResponse
    /\ opLog = {}

InitCollection ==
    \/ collExists = FALSE /\ collPoints = NoPoints
    \/ collExists = TRUE /\ collPoints = Upsert(NoPoints, PriorCollection)

Init ==
    /\ InitCollection
    /\ providerFaithful = TRUE
    /\ initialized \in BOOLEAN
    /\ InitIngest
    /\ InitQuery
    /\ InitPromptIdle
    /\ InitPrepareIdle
    /\ InitOps

Next == Ingest \/ Serve

\* requests served while an ingestion run may be under way
Spec == Init /\ [][Next]_vars

\* the ingestion script alone
SpecIngest == Init /\ [][Ingest]_vars

\* the ingestion script alone, with an embedding provider that may return
\* fewer vectors than it was given texts
InitShort ==
    /\ InitCollection
    /\ providerFaithful = FALSE
    /\ initialized \in BOOLEAN
    /\ InitIngest
    /\ InitQuery
    /\ InitPromptIdle
    /\ InitPrepareIdle
    /\ InitOps

SpecIngestShort == InitShort /\ [][Ingest]_vars

\* /health and /stats called while create_collection drops and recreates the
\* collection
Ops ==
    \/ ResetStart
    \/ DeleteCollection
    \/ CreateCollection
    \/ HealthCheck
    \/ GetStatistics

SpecOps == Init /\ [][Ops]_vars

\* build_prompt on its own: result dicts as ArizonaPlantVectorStore.search
\* returns them, and the questions asked
ResultPool ==
    { [id |-> "p1", score |-> 9137, title |-> "Saguaro",
       content |-> "Carnegiea gigantea tolerates extreme heat...",
       type |-> "plant", source |-> "X", metadata |-> "{}"],
      [id |-> "p2", score |-> 5525, title |-> None,
       content |-> "Needs little water.",
       type |-> "care", source |-> "Y", metadata |-> "{}"],
      [id |-> "p3", score |-> 39, title |-> "Ocotillo",
       content |-> "Fouquieria splendens\nblooms after rain",
       type |-> "plant", source |-> "Z", metadata |-> "{}"] }

PromptQueries ==
    {"abc", "drought tolerant cactus", "How to care for saguaro cactus?"}

InitPrompt ==
    /\ collExists = FALSE
    /\ collPoints = NoPoints
    /\ providerFaithful = TRUE
    /\ initialized = FALSE
    /\ InitIngest
    /\ InitQuery
    /\ bpQuery \in PromptQueries
    /\ bpResults \in UNION {[1..n -> ResultPool] : n \in 0..MaxResults}
    /\ bpPrompt = None
    /\ InitPrepareIdle
    /\ InitOps

BuildPrompt ==
    /\ bpPrompt = None
    /\ bpPrompt' = build_prompt(bpQuery, bpResults)
    /\ UNCHANGED <<bpQuery, bpResults>>
    /\ UNCHANGED <<collVars, providerFaithful, initialized, ingestVars, queryVars,
                   ptVars, opVars>>

SpecPrompt == InitPrompt /\ [][BuildPrompt]_vars

\* prepare_text_for_embedding on its own: documents with and without a
\* 'title' and a 'content' key, the combined text shorter than, as long as and
\* longer than max_chars
RECURSIVE Doubled(_, _)
Doubled(s, k) == IF k = 0 THEN s ELSE Doubled(s \o s, k - 1)

Digits == Doubled("0123456789", 10)

ContentOfLen(n) == SubSeq(Digits, 1, n)

Titles == {SubSeq("Saguaro cactus", 1, n) : n \in 0..MaxTitleLen}

ContentLens ==
    {0, 10, MAX_CHARS - MaxTitleLen - 3, MAX_CHARS - MaxTitleLen - 2,
     MAX_CHARS - 2, MAX_CHARS, MAX_CHARS + 1, OverlongContentLen}

PrepareDocuments ==
    {[id |-> "p1", title |-> t, content |-> ContentOfLen(n)] :
        t \in Titles, n \in ContentLens}
    \cup {[id |-> "p1", content |-> ContentOfLen(n)] : n \in ContentLens}
    \cup {[id |-> "p1", title |-> t] : t \in Titles}

InitPrepare ==
    /\ collExists = FALSE
    /\ collPoints = NoPoints
    /\ providerFaithful = TRUE
    /\ initialized = FALSE
    /\ InitIngest
    /\ InitQuery
    /\ InitPromptIdle
    /\ InitOps
    /\ ptDocument \in PrepareDocuments
    /\ ptText = None

PrepareText ==
    /\ ptText = None
    /\ ptText' = prepare_text_for_embedding(ptDocument)
    /\ UNCHANGED ptDocument
    /\ UNCHANGED <<collVars, providerFaithful, initialized, ingestVars, queryVars,
                   bpVars, opVars>>

SpecPrepare == InitPrepare /\ [][PrepareText]_vars

-----------------------------------------------------------------------------
(* Properties *)

\* the document ids of a list of search results or SearchResult objects
Ids(results) == [r \in 1..Len(results) |-> results[r].id]

QueryAnswered ==
    qpc = "done" /\ request.endpoint = "/query" /\ response.status = 200

\* C1: for every successful /query, the documents returned alongside the
\* answer are the ranked result list the prompt was built from: same
\* documents, same order, same length.
C1_DocumentsArePromptResults ==
    QueryAnswered => Ids(response.retrieved_documents) = Ids(ragResults)

RECURSIVE EmbedAll(_, _, _)
\* create_embeddings' loop run to its end with a faithful provider
EmbedAll(texts, i, batch_size) ==
    IF i >= Len(texts) THEN <<>>
    ELSE LET batch_texts == Batch(texts, i, batch_size)
         IN  [j \in 1..Len(batch_texts) |-> Encode(batch_texts[j])]
             \o EmbedAll(texts, i + batch_size, batch_size)

RECURSIVE UploadFirst(_, _, _)
\* the collection, empty at first, after the first k iterations of
\* upload_to_qdrant's loop with every upsert accepted
UploadFirst(batched, k, batch_size) ==
    IF k = 0 THEN NoPoints
    ELSE Upsert(UploadFirst(batched, k - 1, batch_size),
                Batch(batched, (k - 1) * batch_size, batch_size))

\* len(range(0, n, batch_size))
Iterations(n, batch_size) == (n + batch_size - 1) \div batch_size

\* the batch sizes tried on a list of n items: those that take the loop
\* through at most MaxIterations iterations
BatchSizes(n) ==
    {bs \in {1, 2, 7, EMBED_BATCH_SIZE, UPLOAD_BATCH_SIZE, UPLOAD_BATCH_SIZE + 1} :
        Iterations(n, bs) <= MaxIterations}

\* the index an ingestion run over docs is to leave: point i - 1 carries the
\* payload and the embedding of the i-th document
ExpectedIndex(docs) ==
    [id \in 0..(Len(docs) - 1) |->
        [vector |-> Encode(prepare_text_for_embedding(docs[id + 1])),
         payload |-> Payload(docs[id + 1])]]

\* C2: after build_index has succeeded over N documents the collection holds
\* exactly the points 0..N-1, point i with the payload and embedding of the
\* i-th document, whatever the collection held before; and the two batch
\* loops give that same result for every batch size.
C2_IndexMatchesDocuments ==
    (ipc = "done") =>
        /\ collExists
        /\ collPoints = ExpectedIndex(documents)
        /\ \A eb \in BatchSizes(Len(documents)) :
              BuildPoints(Zip3(documents, EmbedAll(Texts(documents), 0, eb),
                               Texts(documents))) = points
        /\ \A ub \in BatchSizes(Len(points)) :
              UploadFirst(points, Iterations(Len(points), ub), ub)
                  = ExpectedIndex(documents)

\* a run over more documents than one upsert batch, into a collection that
\* held other points, has succeeded
C2_Witness ==
    /\ ipc = "done"
    /\ Len(documents) > UPLOAD_BATCH_SIZE
    /\ collBefore.exists
    /\ DOMAIN collBefore.points # {}

\* C3: when a step of build_index fails after the collection was reset
\* (embedding, or any upsert batch), the collection is left in its empty
\* post-reset state.
C3_FailureLeavesEmptyCollection ==
    (ipc = "failed" /\ ierror.at \in {"create_embeddings", "upload_to_qdrant"}) =>
        collExists /\ collPoints = NoPoints

\* C4: build_index reports success only when the point count the index
\* reports equals the number of documents loaded; on a mismatch the run fails.
C4_MismatchIsFatal ==
    (ipc = "done") => report.total_vectors = Len(documents)

\* C5: when load_dataset fails, the run ends before any index operation is
\* issued and the collection is as it was before the run.
C5_LoadFailureLeavesIndex ==
    (ipc = "failed" /\ ierror.at = "load_dataset") =>
        /\ indexOps = 0
        /\ Collection = collBefore

\* a run over a missing, unsupported or malformed dataset has failed while the
\* collection holds points of an earlier run
C5_Witness ==
    /\ ipc = "failed"
    /\ ierror.at = "load_dataset"
    /\ ierror.type \in {"FileNotFoundError", "ValueError", "JSONDecodeError"}
    /\ Cardinality(DOMAIN collPoints) = PriorPoints

InFlight == qpc \in {"rag", "llm", "documents", "search"}

\* C6: under every interleaving of a request with the steps of an ingestion
\* run, the request ends in a returned result list or in an explicit error
\* response: a handler in flight can always take its next step, a finished
\* one has answered 200 with its list or 500 with a detail, and an index
\* query that found no collection ended in the error response.
C6_QueryNeverCrashes ==
    /\ InFlight => ENABLED Serve
    /\ (qpc = "done") =>
          \/ response.status = 422
          \/ /\ response.status = 200
             /\ failedCall = None
             /\ IF request.endpoint = "/query"
                THEN Len(response.retrieved_documents) <= request.top_k
                ELSE response.count = Len(response.results)
          \/ /\ response.status = 500
             /\ Len(response.detail) > 0
    /\ (qpc = "done" /\ \E k \in 1..Len(searchAt) : ~searchAt[k].exists) =>
          response.status = 500

\* a request whose index query landed between the delete and the create of a
\* running reset has been answered with the error response
C6_Witness ==
    /\ qpc = "done"
    /\ response.status = 500
    /\ \E k \in 1..Len(searchAt) : searchAt[k].at = "create" /\ ~searchAt[k].exists

EmptyCollection == [exists |-> TRUE, points |-> NoPoints]

\* C7: every completed create_collection leaves the collection existing and
\* empty; run twice in a row, it leaves the same empty state both times.
C7_ResetIdempotent ==
    /\ \A k \in 1..Len(resetLog) : resetLog[k] = EmptyCollection
    /\ (ipc = "resetDone") => Collection = EmptyCollection

\* create_collection has completed twice in a row on a collection that held
\* points
C7_Witness ==
    /\ ipc = "resetDone"
    /\ Len(resetLog) = 2
    /\ DOMAIN collBefore.points # {}

\* C8: a request with top_k <= 0 is rejected before any index query is
\* issued, and the index is only ever queried with a positive limit.
C8_PositiveLimitOnly ==
    /\ \A limit \in indexLimits : limit >= 1
    /\ (qpc # "idle" /\ request.top_k <= 0) =>
          /\ qpc = "done"
          /\ response.status = 422
          /\ searchCalls = 0

\* a request with top_k <= 0 and an acceptable question has been rejected
C8_Witness ==
    /\ qpc = "done"
    /\ request.top_k <= 0
    /\ Len(request.question) >= MIN_QUESTION_LEN
    /\ initialized
    /\ response.status = 422

\* C10: when retrieval or the language-model call fails during /query the
\* caller gets the error response, which carries no answer; a response that
\* carries an answer (also one with an empty document list) means that no
\* call failed, so the two outcomes differ in status.
C10_FailureIsExplicit ==
    (qpc = "done" /\ request.endpoint = "/query") =>
        /\ (failedCall \in {"retrieval", "generation"}) =>
              /\ response.status = 500
              /\ "answer" \notin DOMAIN response
        /\ ("answer" \in DOMAIN response) =>
              /\ response.status = 200
              /\ failedCall = None
              /\ response.answer = LlmAnswer

\* the language-model call of a /query has failed after a retrieval that
\* found documents, and the request has been answered
C10_Witness ==
    /\ qpc = "done"
    /\ request.endpoint = "/query"
    /\ failedCall = "generation"
    /\ Len(ragResults) > 0
    /\ response.status = 500

\* a /query has succeeded with an empty document list
C10_EmptyAnswerReached ==
    QueryAnswered /\ Len(response.retrieved_documents) = 0

\* C11: /search stops after retrieval: along a /search request no chat
\* completion is issued and no prompt is built, and the step that answers it
\* leaves the collection as it was.
C11_SearchOnlyStops ==
    /\ [](request.endpoint = "/search" => (llmCalls = 0 /\ prompt = None))
    /\ [][(qpc = "search" /\ qpc' = "done")
            => (llmCalls' = 0 /\ collExists' = collExists /\ collPoints' = collPoints)]_vars

\* a /search request has returned documents of a populated collection
C11_Witness ==
    /\ qpc = "done"
    /\ request.endpoint = "/search"
    /\ response.status = 200
    /\ response.count > 0
    /\ searchCalls = 1

\* the text prepare_text_for_embedding made of a document whose content is
\* OverlongContentLen characters long
OverlongPrepared ==
    /\ ptText # None
    /\ Len(Get(ptDocument, "content", "")) = OverlongContentLen

\* C12 as stated: for a content of length 6000 the text is 5000 + len(title)
\* + 2 characters long: the title, a blank line and the first 5000 characters
\* of the content.
C12_ContentCutTo5000 ==
    OverlongPrepared =>
        LET title == Get(ptDocument, "title", "")
            content == Get(ptDocument, "content", "")
        IN  /\ Len(ptText) = MAX_CHARS + Len(title) + 2
            /\ ptText = title \o "\n\n" \o SubSeq(content, 1, MAX_CHARS)

\* C12: for a content of length 6000 the text is exactly 5000 characters
\* long: the title, a blank line and the first 5000 - len(title) - 2
\* characters of the content.
C12_TextCutTo5000 ==
    OverlongPrepared =>
        LET title == Get(ptDocument, "title", "")
            content == Get(ptDocument, "content", "")
        IN  /\ Len(ptText) = MAX_CHARS
            /\ ptText = title \o "\n\n"
                          \o SubSeq(content, 1, MAX_CHARS - Len(title) - 2)

\* an over-long content under a title of the longest length has been prepared
C12_Witness ==
    /\ OverlongPrepared
    /\ Len(Get(ptDocument, "title", "")) = MaxTitleLen
    /\ Len(ptText) < Len(Get(ptDocument, "content", ""))

\* C13: a call against a collection that does not exist and a call of the
\* same operation with the index service unreachable never give the caller
\* the same result.
C13_NotFoundIsDistinct ==
    \A a, b \in opLog :
        (a.op = b.op /\ a.error = NotFound /\ b.error = Unreachable)
            => a.result # b.result

\* C14: with the RAG system or the vector store not initialized, a valid
\* /query or /search request is answered 503 and no index query and no chat
\* completion is issued.
C14_NotInitializedIs503 ==
    (qpc = "done" /\ ~initialized
       /\ QueryRequestValid(request.question, request.top_k)) =>
        /\ response.status = 503
        /\ searchCalls = 0
        /\ llmCalls = 0

-----------------------------------------------------------------------------
(* Properties of build_prompt *)

\* the positions at which sub occurs in s
Occ(s, sub) ==
    {p \in 1..(Len(s) - Len(sub) + 1) : SubSeq(s, p, p + Len(sub) - 1) = sub}

First(s, sub) == CHOOSE p \in Occ(s, sub) : \A q \in Occ(s, sub) : p <= q

EndsWith(s, suffix) ==
    /\ Len(s) >= Len(suffix)
    /\ SubSeq(s, Len(s) - Len(suffix) + 1, Len(s)) = suffix

BlockLabel(i) == "Document " \o ToString(i) \o " (Score: "

QuestionLine(query) == "User Question: " \o query

\* the prompt holds exactly Len(results) labeled blocks, numbered from 1 in
\* rank order, block i with the title, source and content of result i
BlocksInRankOrder(text, results) ==
    LET n == Len(results)
        at == [i \in 1..n |-> First(text, BlockLabel(i))]
        stop == [i \in 1..n |-> IF i < n THEN at[i + 1] ELSE Len(text)]
        within(i, line) ==
            \E p \in Occ(text, line) : at[i] < p /\ p < stop[i]
    IN  /\ Cardinality(Occ(text, " (Score: ")) = n
        /\ \A i \in 1..n : Cardinality(Occ(text, BlockLabel(i))) = 1
        /\ \A i \in 1..(n - 1) : at[i] < at[i + 1]
        /\ \A i \in 1..n :
              /\ within(i, "\nTitle: " \o Str(results[i].title) \o "\n")
              /\ within(i, "\nSource: " \o Str(results[i].source) \o "\n")
              /\ within(i, "\nContent: " \o Str(results[i].content) \o "\n")

PromptBuilt == bpPrompt # None /\ Len(bpResults) > 0

\* C9 as stated: the blocks, then the instructional text, and the literal
\* query string verbatim at the end of the prompt.
C9_QueryAtEnd ==
    PromptBuilt =>
        /\ BlocksInRankOrder(bpPrompt, bpResults)
        /\ First(bpPrompt, "Instructions:")
              > First(bpPrompt, BlockLabel(Len(bpResults)))
        /\ EndsWith(bpPrompt, bpQuery)

\* C9 as amended: the blocks, then the "User Question:" line with the literal
\* query string, then the instructional text; the prompt ends with "Answer:".
C9_QueryBeforeInstructions ==
    PromptBuilt =>
        /\ BlocksInRankOrder(bpPrompt, bpResults)
        /\ Cardinality(Occ(bpPrompt, QuestionLine(bpQuery) \o "\n")) = 1
        /\ First(bpPrompt, QuestionLine(bpQuery))
              > First(bpPrompt, BlockLabel(Len(bpResults)))
        /\ First(bpPrompt, "Instructions:") > First(bpPrompt, QuestionLine(bpQuery))
        /\ EndsWith(bpPrompt, "Answer:")

\* build_prompt has been applied to a result list of the greatest length
C9_Witness ==
    /\ bpPrompt # None
    /\ Len(bpResults) = MaxResults
    /\ \E i \in 1..Len(bpResults) : bpResults[i].title = None

====
